---- MODULE Spec2Model ----
(***************************************************************************)
(* The transcript event pipeline of sttx (src/src/transcribe.rs): the      *)
(* Timing record, the normalizer join_continuations and the six grouping   *)
(* operators max_silence, by_gap, sentences, min_word_count, lasting and   *)
(* chunks.  Every operator is an itertools `batching` adaptor: one call of *)
(* its closure pulls a run of events from the upstream iterator and        *)
(* returns the accumulated event.  Spec runs one operator over one input   *)
(* sequence, one loop iteration of the closure per step; SpecCompose and   *)
(* SpecPipeline run operators stacked; SpecDecode, SpecCsv and SpecClock   *)
(* are the decoder, the CSV-repair filter and the clock rendering.         *)
(*                                                                         *)
(* A text is a sequence of one-character strings.  Times are u32           *)
(* milliseconds; a u32 subtraction or addition that leaves the range       *)
(* aborts the program in a build with overflow checks and wraps modulo     *)
(* 2^32 in a build without them.                                           *)
(***************************************************************************)
EXTENDS Integers, Sequences, FiniteSets, TLC

VARIABLES
    op,             \* the operator under execution: [name, arg]
    xs,             \* the upstream sequence of events
    pos,            \* number of events pulled from the upstream so far
    pc,             \* "batch": between two calls of the closure; "run": inside
                    \* a call, acc holds the accumulator; "done": the closure
                    \* returned None; "panicked": arithmetic overflow abort
    acc,            \* the accumulator of the current run
    first,          \* index in xs of the event that seeded acc
    total_silence,  \* max_silence's sum of the gaps merged into acc
    taken,          \* chunks: events yielded by take(chunk_count) in this call
    twi_done,       \* take_while_inclusive's flag: the predicate has failed
    out,            \* the events emitted so far
    runs,           \* for each emitted event, <<a, b>>: it covers xs[a..b]
    profile,        \* "any" until an overflow has wrapped, then "wrapping"
    \* the transform command: the operators stacked on the decoded events
    argv,           \* the grouping flags of the command line, in their order
    input,          \* the decoded events the first stage reads
    rest,           \* the stages still to run after op: [op, from]
    trace,          \* the stages that have run to their end: [op, out]
    \* the decoder
    format,         \* "csv" or "json"
    records,        \* the records of the source: "event" or "malformed"
    decoded,        \* number of records deserialized so far
    yielded,        \* number of events handed to the pipeline so far
    outcome,        \* "running", "success" or "panic"
    \* the CSV-repair filter
    reader,         \* the lines of the wrapped reader
    lines_read,     \* number of lines read_line has consumed
    written,        \* the bytes each call of read has put in the caller's buffer
    csv_pc,         \* "open", "eof" after Ok(0), "panicked"
    \* the clock rendering
    total_ms,       \* the value to render, milliseconds
    min_clock_scale,\* "None", "Seconds", "Minutes" or "Hours"
    rendered        \* the rendered text, <<>> before the call

\* the state of one operator at work
group_vars == <<op, xs, pos, pc, acc, first, total_silence, taken, twi_done, out, runs, profile>>

pipe_vars == <<argv, input, rest, trace>>

decode_vars == <<format, records, decoded, yielded, outcome>>

csv_vars == <<reader, lines_read, written, csv_pc>>

clock_vars == <<total_ms, min_clock_scale, rendered>>

vars == <<group_vars, pipe_vars, decode_vars, csv_vars, clock_vars>>

---------------------------------------------------------------------------
(* Bounds and constants *)

\* longest generated input sequence
MaxLen == 3

\* modulus of the u32 arithmetic.  TLC's integers are 32-bit signed, so 2^30
\* stands for 2^32: every time and duration of the model is far below both,
\* and a wrapped difference is far above every duration argument under both
U32 == 1073741824

\* const MAX_DURATION: Duration = Duration::from_millis(500)
MAX_DURATION == 500

---------------------------------------------------------------------------
(* Characters and texts *)

Whitespace == {" ", "\t", "\n"}

Terminators == {".", "!", "?"}

\* char::is_whitespace
is_whitespace(c) == c \in Whitespace

\* format!("{}{}", a, b)
Concat(a, b) == a \o b

\* Timing { start, end, text }
Timing(s, e, t) == [start |-> s, end |-> e, text |-> t]

\* u32 subtraction and addition as a build without overflow checks computes them
Sub32(a, b) == (a + U32 - b) % U32

Add32(a, b) == (a + b) % U32

\* the operation leaves the u32 range
SubOverflows(a, b) == a < b

AddOverflows(a, b) == a + b >= U32

\* Timing::duration
duration(t) == Sub32(t.end, t.start)

\* combine that keeps the end of self
combine_dropping_end(self, other) == Timing(self.start, self.end, Concat(self.text, other.text))

\* combine that takes the start of other and the end of self
combine_swapped_times(self, other) == Timing(other.start, self.end, Concat(self.text, other.text))

\* Timing::combine
combine(self, other) == Timing(self.start, other.end, Concat(self.text, other.text))

\* absorb that extends the time range to the end of other
absorb_extending(self, other) == Timing(self.start, other.end, Concat(self.text, other.text))

\* Timing::absorb: like combine, but does not change the timing
absorb(self, other) == Timing(self.start, self.end, Concat(self.text, other.text))

\* is_continuation that asks for a first character
is_continuation_nonempty(t) == Len(t.text) > 0 /\ ~is_whitespace(t.text[1])

\* Timing::is_continuation: !text.chars().next().is_some_and(char::is_whitespace)
is_continuation(t) == ~(Len(t.text) > 0 /\ is_whitespace(t.text[1]))

\* is_sentence: the last character has index > 0 and is a terminator
is_sentence(s) == Len(s) > 0 /\ (Len(s) - 1 > 0 /\ s[Len(s)] \in Terminators)

\* str::split_whitespace().count(): maximal runs of non-whitespace
WordCount(s) ==
    Cardinality({i \in 1..Len(s) :
        ~is_whitespace(s[i]) /\ (i = 1 \/ is_whitespace(s[i - 1]))})

---------------------------------------------------------------------------
(* Inputs *)

\* every sequence over S of length at most n
SeqUpTo(S, n) == UNION {[1..k -> S] : k \in 0..n}

\* the text of a string literal, one character per element
T_a == <<" ", "a">>

T_b == <<"b">>

T_stop == <<".">>

T_a_stop == <<"a", ".">>

T_a_b == <<"a", " ", "b">>

T_empty == <<>>

\* start and end times of the generated events, milliseconds
Times == {0, 300, 600}

\* events whose timing varies freely (end >= start): gaps, overlaps, disorder
TimedEvents ==
    {Timing(se[1], se[2], T_a) : se \in {p \in Times \X Times : p[2] >= p[1]}}

\* events for the normalizer: utterance starts, continuations, empty texts
FragmentEvents ==
    {Timing(se[1], se[2], t) :
        se \in {<<0, 300>>, <<0, 600>>, <<300, 600>>, <<600, 600>>},
        t \in {T_a, T_b, T_empty}}

\* events whose text varies: sentence ends, word counts
TextEvents ==
    {Timing(se[1], se[2], t) :
        se \in {<<0, 300>>, <<600, 900>>},
        t \in {T_empty, T_a, T_a_stop, T_stop, T_a_b}}

\* Duration arguments of --max-silence, --by-gap and --lasting, milliseconds
Durations == {0, 300, 600}

\* arguments of --min-word-count
WordCounts == {1, 2}

\* arguments of --chunk-size
ChunkSizes == {0, 1, 2}

Op(n, a) == [name |-> n, arg |-> a]

GroupingNames == {"max_silence", "by_gap", "sentences", "min_word_count", "lasting", "chunks"}

Ops ==
    {Op("join_continuations", 0), Op("sentences", 0)}
    \cup {Op(n, d) : n \in {"max_silence", "by_gap", "lasting"}, d \in Durations}
    \cup {Op("min_word_count", n) : n \in WordCounts}
    \cup {Op("chunks", k) : k \in ChunkSizes}

Inputs(o) ==
    CASE o.name = "join_continuations" -> SeqUpTo(FragmentEvents, MaxLen)
      [] o.name \in {"max_silence", "by_gap", "lasting"} -> SeqUpTo(TimedEvents, MaxLen)
      [] OTHER -> SeqUpTo(TextEvents, MaxLen)

\* the inputs of the end-to-end scenarios S1, S3, S4 and S5 of the specification
S1 == <<Timing(0, 200, <<" ", "H", "e", "l", "l", "o">>),
        Timing(200, 900, <<"w", "o", "r", "l", "d">>),
        Timing(900, 1000, <<" ", "a", "g", "a", "i", "n", ".">>)>>

S3 == [i \in 1..7 |-> Timing(i * 100, i * 100 + 100, T_a)]

S4 == <<Timing(0, 100, T_a), Timing(150, 250, T_a), Timing(600, 700, T_a), Timing(800, 900, T_a)>>

S5 == <<Timing(0, 100, T_a), Timing(200, 300, T_a), Timing(500, 600, T_a), Timing(900, 1000, T_a)>>

Scenarios ==
    {<<Op("join_continuations", 0), S1>>,
     <<Op("chunks", 3), S3>>,
     <<Op("by_gap", 200), S4>>,
     <<Op("max_silence", 300), S5>>}

\* an operator that has not pulled anything yet
Fresh ==
    /\ pos = 0
    /\ pc = "batch"
    /\ acc = Timing(0, 0, <<>>)
    /\ first = 0
    /\ total_silence = 0
    /\ taken = 0
    /\ twi_done = FALSE
    /\ out = <<>>
    /\ runs = <<>>

\* no operator at work
NoGroup == op = Op("join_continuations", 0) /\ xs = <<>> /\ Fresh /\ profile = "any"

\* the operator at work is the only stage
NoPipe == argv = <<>> /\ input = xs /\ rest = <<>> /\ trace = <<>>

\* no source to decode
NoDecode ==
    format = "csv" /\ records = <<>> /\ decoded = 0 /\ yielded = 0 /\ outcome = "running"

\* no CSV source to repair
NoCsv == reader = <<>> /\ lines_read = 0 /\ written = <<>> /\ csv_pc = "open"

\* no clock value to render
NoClock == total_ms = 0 /\ min_clock_scale = "None" /\ rendered = <<>>

Init ==
    /\ \/ op \in Ops /\ xs \in Inputs(op)
       \/ \E c \in Scenarios : op = c[1] /\ xs = c[2]
    /\ Fresh
    /\ profile = "any"
    /\ NoPipe /\ NoDecode /\ NoCsv /\ NoClock

---------------------------------------------------------------------------
(* The iterator plumbing shared by the operators *)

\* the upstream iterator has another event
HasNext == pos < Len(xs)

\* it.peek() / it.next() when HasNext
next == xs[pos + 1]

\* Duration::as_millis() as u32
Millis(d) == d % U32

\* let mut acc = it.next()?  with an event: acc seeds a new run
Seed(name) ==
    /\ pc = "batch"
    /\ op.name = name
    /\ HasNext
    /\ acc' = next
    /\ first' = pos + 1
    /\ pos' = pos + 1
    /\ pc' = "run"
    /\ UNCHANGED <<op, xs, out, runs, profile>>
    /\ UNCHANGED <<pipe_vars, decode_vars, csv_vars, clock_vars>>

\* the closure returns Some(t): the batching adaptor yields t
Emit(t) ==
    /\ out' = Append(out, t)
    /\ runs' = Append(runs, <<first, pos>>)
    /\ pc' = "batch"
    /\ UNCHANGED <<op, xs, pos, acc, first, total_silence, taken, twi_done>>
    /\ UNCHANGED <<pipe_vars, decode_vars, csv_vars, clock_vars>>

\* merging the next event into acc consumes it
Merge(t) ==
    /\ acc' = t
    /\ pos' = pos + 1
    /\ UNCHANGED <<op, xs, pc, first, out, runs>>
    /\ UNCHANGED <<pipe_vars, decode_vars, csv_vars, clock_vars>>

\* the u32 arithmetic the closure evaluates next leaves the range
StepOverflows ==
    CASE op.name = "join_continuations" ->
            /\ ~(HasNext /\ is_continuation(next))
            /\ \/ SubOverflows(acc.end, acc.start)
               \/ /\ duration(acc) > Millis(MAX_DURATION)
                  /\ AddOverflows(acc.start, Millis(MAX_DURATION))
      [] op.name = "max_silence" ->
            /\ HasNext
            /\ \/ AddOverflows(total_silence, next.start)
               \/ SubOverflows(Add32(total_silence, next.start), acc.end)
               \/ /\ Sub32(Add32(total_silence, next.start), acc.end) < Millis(op.arg)
                  /\ \/ SubOverflows(next.start, acc.end)
                     \/ AddOverflows(total_silence, Sub32(next.start, acc.end))
      [] op.name = "by_gap" -> HasNext /\ SubOverflows(next.start, acc.end)
      [] op.name = "lasting" -> SubOverflows(acc.end, acc.start)
      [] OTHER -> FALSE

\* a step that overflows is taken only by a build that wraps
Wraps == profile' = IF StepOverflows THEN "wrapping" ELSE profile

\* a build with overflow checks aborts on the overflow
Panic ==
    /\ pc = "run"
    /\ profile = "any"
    /\ StepOverflows
    /\ pc' = "panicked"
    /\ UNCHANGED <<op, xs, pos, acc, first, total_silence, taken, twi_done, out, runs, profile>>
    /\ UNCHANGED <<pipe_vars, decode_vars, csv_vars, clock_vars>>

\* it.next()? on an exhausted upstream, or take(0): the closure returns None
Exhausted ==
    /\ pc = "batch"
    /\ ~HasNext \/ (op.name = "chunks" /\ op.arg = 0)
    /\ pc' = "done"
    /\ UNCHANGED <<op, xs, pos, acc, first, total_silence, taken, twi_done, out, runs, profile>>
    /\ UNCHANGED <<pipe_vars, decode_vars, csv_vars, clock_vars>>

---------------------------------------------------------------------------
(* join_continuations *)

\* the map closure without its test of the duration
ClampAlways(t) == [t EXCEPT !.end = Add32(t.start, Millis(MAX_DURATION))]

\* the map closure: limit the duration of each utterance
Clamp(t) ==
    IF duration(t) > Millis(MAX_DURATION)
    THEN [t EXCEPT !.end = Add32(t.start, Millis(MAX_DURATION))]
    ELSE t

JoinSeed ==
    /\ Seed("join_continuations")
    /\ UNCHANGED <<total_silence, taken, twi_done>>

JoinAbsorb ==
    /\ pc = "run"
    /\ op.name = "join_continuations"
    /\ HasNext /\ is_continuation(next)
    /\ Merge(absorb(acc, next))
    /\ Wraps
    /\ UNCHANGED <<total_silence, taken, twi_done>>

JoinEmit ==
    /\ pc = "run"
    /\ op.name = "join_continuations"
    /\ ~(HasNext /\ is_continuation(next))
    /\ Emit(Clamp(acc))
    /\ Wraps

join_continuations == JoinSeed \/ JoinAbsorb \/ JoinEmit

---------------------------------------------------------------------------
(* max_silence *)

\* the loop condition without total_silence
SilenceWithinLastGap == Sub32(next.start, acc.end) < Millis(op.arg)

\* the loop condition with <= for <
SilenceWithinInclusive ==
    Sub32(Add32(total_silence, next.start), acc.end) <= Millis(op.arg)

\* total_silence + next.start - acc.end < max_silence.as_millis() as u32
SilenceWithin ==
    Sub32(Add32(total_silence, next.start), acc.end) < Millis(op.arg)

MaxSilenceSeed ==
    /\ Seed("max_silence")
    /\ total_silence' = 0
    /\ UNCHANGED <<taken, twi_done>>

MaxSilenceCombine ==
    /\ pc = "run"
    /\ op.name = "max_silence"
    /\ HasNext /\ SilenceWithin
    /\ total_silence' = Add32(total_silence, Sub32(next.start, acc.end))
    /\ Merge(combine(acc, next))
    /\ Wraps
    /\ UNCHANGED <<taken, twi_done>>

MaxSilenceEmit ==
    /\ pc = "run"
    /\ op.name = "max_silence"
    /\ ~(HasNext /\ SilenceWithin)
    /\ Emit(acc)
    /\ Wraps

max_silence == MaxSilenceSeed \/ MaxSilenceCombine \/ MaxSilenceEmit

---------------------------------------------------------------------------
(* by_gap *)

\* a gap equal to D would still merge
GapWithinInclusive == Sub32(next.start, acc.end) <= Millis(op.arg)

\* next.start - acc.end < gap_size.as_millis() as u32
GapWithin == Sub32(next.start, acc.end) < Millis(op.arg)

ByGapSeed ==
    /\ Seed("by_gap")
    /\ UNCHANGED <<total_silence, taken, twi_done>>

ByGapCombine ==
    /\ pc = "run"
    /\ op.name = "by_gap"
    /\ HasNext /\ GapWithin
    /\ Merge(combine(acc, next))
    /\ Wraps
    /\ UNCHANGED <<total_silence, taken, twi_done>>

ByGapEmit ==
    /\ pc = "run"
    /\ op.name = "by_gap"
    /\ ~(HasNext /\ GapWithin)
    /\ Emit(acc)
    /\ Wraps

by_gap == ByGapSeed \/ ByGapCombine \/ ByGapEmit

---------------------------------------------------------------------------
(* lasting *)

\* a window of exactly the requested duration would stay open
WindowOpenInclusive == duration(acc) <= Millis(op.arg)

\* acc.duration() < window_size.as_millis() as u32
WindowOpen == duration(acc) < Millis(op.arg)

LastingSeed ==
    /\ Seed("lasting")
    /\ UNCHANGED <<total_silence, taken, twi_done>>

LastingCombine ==
    /\ pc = "run"
    /\ op.name = "lasting"
    /\ WindowOpen /\ HasNext
    /\ Merge(combine(acc, next))
    /\ Wraps
    /\ UNCHANGED <<total_silence, taken, twi_done>>

LastingEmit ==
    /\ pc = "run"
    /\ op.name = "lasting"
    /\ ~WindowOpen \/ ~HasNext
    /\ Emit(acc)
    /\ Wraps

lasting == LastingSeed \/ LastingCombine \/ LastingEmit

---------------------------------------------------------------------------
(* sentences and min_word_count: take_while_inclusive(pred), collected *)

\* the predicate handed to take_while_inclusive
TakeWhile(t) ==
    IF op.name = "sentences" THEN ~is_sentence(t.text)
    ELSE WordCount(t.text) < op.arg

\* FromIterator: let first = iter.next()?
CollectSeed(name) ==
    /\ Seed(name)
    /\ twi_done' = ~TakeWhile(next)
    /\ UNCHANGED <<total_silence, taken>>

\* FromIterator: iter.fold(first, |acc, t| acc.combine(&t))
CollectCombine(name) ==
    /\ pc = "run"
    /\ op.name = name
    /\ ~twi_done /\ HasNext
    /\ twi_done' = ~TakeWhile(next)
    /\ Merge(combine(acc, next))
    /\ Wraps
    /\ UNCHANGED <<total_silence, taken>>

CollectEmit(name) ==
    /\ pc = "run"
    /\ op.name = name
    /\ twi_done \/ ~HasNext
    /\ Emit(acc)
    /\ Wraps

sentences == CollectSeed("sentences") \/ CollectCombine("sentences") \/ CollectEmit("sentences")

min_word_count ==
    \/ CollectSeed("min_word_count")
    \/ CollectCombine("min_word_count")
    \/ CollectEmit("min_word_count")

---------------------------------------------------------------------------
(* chunks: take(chunk_count), collected *)

\* the seeding event would not count towards take(chunk_count)
ChunksSeedUncounted ==
    /\ op.arg > 0
    /\ Seed("chunks")
    /\ taken' = 0
    /\ UNCHANGED <<total_silence, twi_done>>

\* take(0) would still pull the seeding event
ChunksSeedAnySize ==
    /\ Seed("chunks")
    /\ taken' = 1
    /\ UNCHANGED <<total_silence, twi_done>>

ChunksSeed ==
    /\ op.arg > 0
    /\ Seed("chunks")
    /\ taken' = 1
    /\ UNCHANGED <<total_silence, twi_done>>

ChunksCombine ==
    /\ pc = "run"
    /\ op.name = "chunks"
    /\ taken < op.arg /\ HasNext
    /\ taken' = taken + 1
    /\ Merge(combine(acc, next))
    /\ Wraps
    /\ UNCHANGED <<total_silence, twi_done>>

ChunksEmit ==
    /\ pc = "run"
    /\ op.name = "chunks"
    /\ taken >= op.arg \/ ~HasNext
    /\ Emit(acc)
    /\ Wraps

chunks == ChunksSeed \/ ChunksCombine \/ ChunksEmit

---------------------------------------------------------------------------

Next ==
    \/ join_continuations
    \/ max_silence
    \/ by_gap
    \/ sentences
    \/ min_word_count
    \/ lasting
    \/ chunks
    \/ Exhausted
    \/ Panic

Spec == Init /\ [][Next]_vars

---------------------------------------------------------------------------
(* Stacked operators.  An operator wraps the iterator of the operator      *)
(* before it and is a function of the events it pulls from it, so a stack  *)
(* is run one stage after the other: a stage starts when the stage before  *)
(* it has returned None.                                                   *)

\* a stage reads the output of the stage before it ("prev") or, to compare two
\* stacks on one input, the input again ("input")
Stage(o, f) == [op |-> o, from |-> f]

\* the next operator starts as Fresh
Restart ==
    /\ pos' = 0
    /\ pc' = "batch"
    /\ acc' = Timing(0, 0, <<>>)
    /\ first' = 0
    /\ total_silence' = 0
    /\ taken' = 0
    /\ twi_done' = FALSE
    /\ out' = <<>>
    /\ runs' = <<>>

\* every stage would read the input again
NextStageRereads ==
    /\ pc = "done"
    /\ rest # <<>>
    /\ trace' = Append(trace, [op |-> op, out |-> out])
    /\ op' = Head(rest).op
    /\ xs' = input
    /\ rest' = Tail(rest)
    /\ Restart
    /\ UNCHANGED <<profile, argv, input, decode_vars, csv_vars, clock_vars>>

\* it = it.<operator>(..): the next operator consumes what this one emitted
NextStage ==
    /\ pc = "done"
    /\ rest # <<>>
    /\ trace' = Append(trace, [op |-> op, out |-> out])
    /\ op' = Head(rest).op
    /\ xs' = IF Head(rest).from = "input" THEN input ELSE out
    /\ rest' = Tail(rest)
    /\ Restart
    /\ UNCHANGED <<profile, argv, input, decode_vars, csv_vars, clock_vars>>

\* the stack has run to its end
Finished == pc = "done" /\ rest = <<>>

\* longest generated input of a composition
MaxComposeLen == 4

\* chunk sizes k of the compositions chunks(k) . chunks(k)
ComposeChunkSizes == {1, 2}

\* three distinguishable events; the second ends a sentence
ComposeEvents ==
    {Timing(0, 300, T_a), Timing(300, 600, T_a_stop), Timing(600, 900, T_stop)}

\* nine events in a row, for chunks(3) . chunks(3)
NineEvents == [i \in 1..9 |-> Timing(i * 100, i * 100 + 100, T_a)]

\* sentences twice
SentencesTwice == <<Stage(Op("sentences", 0), "prev"), Stage(Op("sentences", 0), "prev")>>

\* chunks(k) twice, then chunks(k * k) on the same input
ChunksTwice(k) ==
    <<Stage(Op("chunks", k), "prev"), Stage(Op("chunks", k), "prev"),
      Stage(Op("chunks", k * k), "input")>>

InitCompose ==
    /\ \E plan \in {SentencesTwice} \cup {ChunksTwice(k) : k \in ComposeChunkSizes} :
            /\ input \in SeqUpTo(ComposeEvents, MaxComposeLen)
            /\ op = plan[1].op
            /\ rest = Tail(plan)
       \/ /\ input = NineEvents
          /\ op = ChunksTwice(3)[1].op
          /\ rest = Tail(ChunksTwice(3))
    /\ xs = input
    /\ Fresh
    /\ profile = "any"
    /\ argv = <<>> /\ trace = <<>>
    /\ NoDecode /\ NoCsv /\ NoClock

NextCompose ==
    \/ sentences
    \/ chunks
    \/ Exhausted
    \/ NextStage

SpecCompose == InitCompose /\ [][NextCompose]_vars

---------------------------------------------------------------------------
(* The transform command (src/src/app/cmd/transform.rs): the normalizer,   *)
(* then the operators the command line requests.                           *)

\* most grouping flags on a generated command line
MaxFlags == 2

\* longest generated input of the transform command
MaxPipeLen == 3

\* the grouping flags with the argument given to each
FlagOps ==
    {Op("max_silence", 300), Op("by_gap", 300), Op("sentences", 0),
     Op("min_word_count", 2), Op("lasting", 600), Op("chunks", 2)}

\* the command lines: each flag at most once, in any order
CommandLines ==
    {a \in SeqUpTo(FlagOps, MaxFlags) :
        \A i, j \in 1..Len(a) : i # j => a[i].name # a[j].name}

\* a fragment, a continuation that ends a sentence, and a later fragment
PipelineEvents ==
    {Timing(0, 300, T_a), Timing(300, 600, T_a_stop), Timing(600, 900, T_a)}

\* the field of TranscriptionPipeline that clap fills from the flag `name`:
\* <<>> for None or false, else the stage of the operator
Field(a, name) ==
    IF \E i \in 1..Len(a) : a[i].name = name
    THEN <<Stage(a[CHOOSE i \in 1..Len(a) : a[i].name = name], "prev")>>
    ELSE <<>>

\* the operators would be stacked in the order of the flags
process_iter_in_flag_order(a) == [i \in 1..Len(a) |-> Stage(a[i], "prev")]

\* TranscriptionPipeline::process_iter: the stages stacked on the normalizer
process_iter(a) ==
    Field(a, "max_silence") \o Field(a, "by_gap") \o Field(a, "sentences")
        \o Field(a, "min_word_count") \o Field(a, "lasting") \o Field(a, "chunks")

\* Transform::read_data: join_continuations on the decoded events, then
\* process_iter
InitPipeline ==
    /\ argv \in CommandLines
    /\ input \in SeqUpTo(PipelineEvents, MaxPipeLen)
    /\ op = Op("join_continuations", 0)
    /\ xs = input
    /\ rest = process_iter(argv)
    /\ trace = <<>>
    /\ Fresh
    /\ profile = "any"
    /\ NoDecode /\ NoCsv /\ NoClock

NextPipeline ==
    \/ join_continuations
    \/ max_silence
    \/ by_gap
    \/ sentences
    \/ min_word_count
    \/ lasting
    \/ chunks
    \/ Exhausted
    \/ Panic
    \/ NextStage

SpecPipeline == InitPipeline /\ [][NextPipeline]_vars

---------------------------------------------------------------------------
(* The decoder (src/src/app/input.rs): InputFormat::consume_reader turns   *)
(* the records of the source into events.  A record is an "event" or is    *)
(* "malformed"; deserializing a malformed record yields Err, and           *)
(* Result::expect on Err panics.                                           *)

\* most records in a generated source
MaxRecords == 4

\* the next record to deserialize
record == records[decoded + 1]

\* Self::Csv: deserialize().map(|r| r.expect(..)).collect_vec() deserializes
\* every record before the first event is handed on
CsvCollect ==
    /\ format = "csv"
    /\ outcome = "running"
    /\ decoded < Len(records)
    /\ IF record = "malformed"
       THEN outcome' = "panic" /\ UNCHANGED decoded
       ELSE decoded' = decoded + 1 /\ UNCHANGED outcome
    /\ UNCHANGED <<format, records, yielded, group_vars, pipe_vars, csv_vars, clock_vars>>

\* .into_iter(): the collected events are handed on one by one
CsvYield ==
    /\ format = "csv"
    /\ outcome = "running"
    /\ decoded = Len(records)
    /\ yielded < decoded
    /\ yielded' = yielded + 1
    /\ UNCHANGED <<format, records, decoded, outcome, group_vars, pipe_vars, csv_vars, clock_vars>>

\* Self::Json: rdr.map(|r| r.expect(..)) deserializes a record when the
\* pipeline pulls an event
JsonNext ==
    /\ format = "json"
    /\ outcome = "running"
    /\ decoded < Len(records)
    /\ IF record = "malformed"
       THEN outcome' = "panic" /\ UNCHANGED <<decoded, yielded>>
       ELSE decoded' = decoded + 1 /\ yielded' = yielded + 1 /\ UNCHANGED outcome
    /\ UNCHANGED <<format, records, group_vars, pipe_vars, csv_vars, clock_vars>>

\* the decoder returns None: the command returns Ok(())
EndOfRecords ==
    /\ outcome = "running"
    /\ decoded = Len(records)
    /\ yielded = decoded
    /\ outcome' = "success"
    /\ UNCHANGED <<format, records, decoded, yielded, group_vars, pipe_vars, csv_vars, clock_vars>>

InitDecode ==
    /\ format \in {"csv", "json"}
    /\ records \in SeqUpTo({"event", "malformed"}, MaxRecords)
    /\ decoded = 0
    /\ yielded = 0
    /\ outcome = "running"
    /\ NoGroup /\ NoPipe /\ NoCsv /\ NoClock

NextDecode ==
    \/ CsvCollect
    \/ CsvYield
    \/ JsonNext
    \/ EndOfRecords

SpecDecode == InitDecode /\ [][NextDecode]_vars

---------------------------------------------------------------------------
(* The CSV-repair filter (src/src/vendor/mod.rs): BadCsvReader is a Read   *)
(* over a BufReader.  A line is a sequence of one-character strings, all   *)
(* of one byte; read_line returns the line with its "\n" when it has one.  *)

\* longest generated line, without its newline
MaxLineLen == 4

\* sizes of the buffer the caller passes to read
BufSizes == {4, 16}

\* the position of a " in s, counted from the left
Quotes(s) == {i \in 1..Len(s) : s[i] = "\""}

\* s without its i-th element
Without(s, i) == [j \in 1..(Len(s) - 1) |-> IF j < i THEN s[j] ELSE s[j + 1]]

SetMin(S) == CHOOSE x \in S : \A y \in S : x <= y

SetMax(S) == CHOOSE x \in S : \A y \in S : x >= y

\* pop_front().zip(pop_back()) is None unless the line holds two quotes
remove_bookending_quotes(l) ==
    IF Cardinality(Quotes(l)) < 2
    THEN l
    ELSE Without(Without(l, SetMax(Quotes(l))), SetMin(Quotes(l)))

\* line.chars().filter(|&c| c == ',').count()
comma_count(l) == Cardinality({i \in 1..Len(l) : l[i] = ","})

\* the bytes one call of read puts in the buffer for the line l
line_to_write(l) ==
    (IF comma_count(l) = 2 THEN remove_bookending_quotes(l) ELSE l) \o <<"\n">>

\* BadCsvReader::read with a buffer of some size
Read ==
    /\ csv_pc = "open"
    /\ \E cap \in BufSizes :
        IF lines_read = Len(reader)
        THEN /\ csv_pc' = "eof"
             /\ UNCHANGED <<lines_read, written>>
        ELSE IF Len(line_to_write(reader[lines_read + 1])) > cap
        THEN /\ csv_pc' = "panicked"
             /\ lines_read' = lines_read + 1
             /\ UNCHANGED written
        ELSE /\ written' = Append(written, line_to_write(reader[lines_read + 1]))
             /\ lines_read' = lines_read + 1
             /\ UNCHANGED csv_pc
    /\ UNCHANGED <<reader, group_vars, pipe_vars, decode_vars, clock_vars>>

\* a record of whisper.cpp: the text field in quotes, no comma in it
WhisperLine == <<"0", ",", "1", ",", "\"", " ", "a", "\"", "\n">>

\* the generated lines without their newline
LineBodies == SeqUpTo({"a", ",", "\""}, MaxLineLen)

\* a source is one generated line, with or without its newline, alone or
\* before a record of whisper.cpp
Sources ==
    {<<b \o <<"\n">>>> : b \in LineBodies}
    \cup {<<b>> : b \in LineBodies \ {<<>>}}
    \cup {<<b \o <<"\n">>, WhisperLine>> : b \in LineBodies}
    \cup {<<>>}

InitCsv ==
    /\ reader \in Sources
    /\ lines_read = 0
    /\ written = <<>>
    /\ csv_pc = "open"
    /\ NoGroup /\ NoPipe /\ NoDecode /\ NoClock

SpecCsv == InitCsv /\ [][Read]_vars

---------------------------------------------------------------------------
(* The clock rendering (src/src/transcribe.rs): format_clock_value.  The   *)
(* rendered text is a sequence of one-character strings.                   *)

\* most whole hours in a generated value
MaxHours == 2

DecimalDigits == <<"0", "1", "2", "3", "4", "5", "6", "7", "8", "9">>

RECURSIVE Decimal(_)
\* "{}" of an unsigned integer
Decimal(n) ==
    IF n < 10 THEN <<DecimalDigits[n + 1]>>
    ELSE Decimal(n \div 10) \o <<DecimalDigits[(n % 10) + 1]>>

\* "{:02}" of an unsigned integer
Decimal02(n) == IF n < 10 THEN <<"0">> \o Decimal(n) ELSE Decimal(n)

\* min_clock_scale.unwrap_or(ClockScale::Minutes)
scale_or_minutes(scale) == IF scale = "None" THEN "Minutes" ELSE scale

format_clock_value(ms_total, scale) ==
    LET ms == ms_total % 1000
        s == ms_total \div 1000
        m == s \div 60
        h == m \div 60
    IN  CASE scale_or_minutes(scale) = "Hours" ->
                Decimal(h) \o <<":">> \o Decimal02(m % 60) \o <<":">>
                    \o Decimal02(s % 60) \o <<".">> \o Decimal02(ms \div 10)
          [] scale_or_minutes(scale) = "Minutes" ->
                Decimal(m) \o <<":">> \o Decimal02(s % 60) \o <<".">> \o Decimal02(ms \div 10)
          [] scale_or_minutes(scale) = "Seconds" ->
                Decimal(s) \o <<".">> \o Decimal02(ms \div 10)

\* one call of format_clock_value
Format ==
    /\ rendered = <<>>
    /\ rendered' = format_clock_value(total_ms, min_clock_scale)
    /\ UNCHANGED <<total_ms, min_clock_scale, group_vars, pipe_vars, decode_vars, csv_vars>>

\* values around the second, the minute and the hour
ClockValues ==
    {((h * 60 + m) * 60 + s) * 1000 + ms :
        h \in 0..MaxHours, m \in {0, 1, 59}, s \in {0, 1, 59}, ms \in {0, 10, 999}}

InitClock ==
    /\ total_ms \in ClockValues
    /\ min_clock_scale \in {"None", "Seconds", "Minutes", "Hours"}
    /\ rendered = <<>>
    /\ NoGroup /\ NoPipe /\ NoDecode /\ NoCsv

SpecClock == InitClock /\ [][Format]_vars

---------------------------------------------------------------------------
(* Vocabulary of the properties *)

RECURSIVE TextOf(_, _, _)
\* the texts of s[a..b] concatenated in order, without separator
TextOf(s, a, b) == IF a > b THEN <<>> ELSE s[a].text \o TextOf(s, a + 1, b)

AllText(s) == TextOf(s, 1, Len(s))

\* the six grouping operators with the arguments their contract covers
IsGrouping ==
    /\ op.name \in GroupingNames
    /\ op.name \in {"chunks", "min_word_count"} => op.arg >= 1

IsJoin == op.name = "join_continuations"

\* every event has end >= start
ValidEvents(s) == \A i \in 1..Len(s) : s[i].end >= s[i].start

\* start times are non-decreasing
StartsOrdered(s) == \A i \in 1..(Len(s) - 1) : s[i + 1].start >= s[i].start

\* every event starts at or after the end of the one before it
NonOverlapping(s) == \A i \in 1..(Len(s) - 1) : s[i + 1].start >= s[i].end

\* the run of the i-th emitted event
RunFirst(i) == runs[i][1]

RunLast(i) == runs[i][2]

\* the runs emitted so far are non-empty, contiguous and in input order
RunsContiguous ==
    /\ Len(runs) = Len(out)
    /\ \A i \in 1..Len(runs) :
        /\ RunFirst(i) <= RunLast(i)
        /\ RunFirst(i) = IF i = 1 THEN 1 ELSE RunLast(i - 1) + 1

\* number of input events that belong to an emitted run
Covered == IF runs = <<>> THEN 0 ELSE RunLast(Len(runs))

\* the operator has stopped: it returned None or the program aborted
Stopped == pc \in {"done", "panicked"}

Min(a, b) == IF a <= b THEN a ELSE b

\* start and end of an event
Range(t) == <<t.start, t.end>>

Ranges(s) == [i \in 1..Len(s) |-> Range(s[i])]

---------------------------------------------------------------------------
(* C1 .. C10 *)

\* C1: for each grouping operator (chunks with K >= 1, min_word_count with
\* N >= 1) and every input, the emitted events correspond to a partition of
\* the input into contiguous non-empty runs in input order; every emitted text
\* is the concatenation of the texts of its run; once the operator has stopped
\* every input event belongs to a run and the output texts concatenate to the
\* input texts.
C1_Partition ==
    IsGrouping =>
        /\ RunsContiguous
        /\ \A i \in 1..Len(out) : out[i].text = TextOf(xs, RunFirst(i), RunLast(i))
        /\ Stopped => Covered = Len(xs) /\ AllText(out) = AllText(xs)

\* C2: for each grouping operator and every input, an emitted event that
\* covers the run xs[a..b] has start = xs[a].start and end = xs[b].end.
C2_TimeEnvelope ==
    IsGrouping =>
        /\ RunsContiguous
        /\ \A i \in 1..Len(out) :
            /\ out[i].start = xs[RunFirst(i)].start
            /\ out[i].end = xs[RunLast(i)].end

\* C2 witness: an emitted event covers three events and the end of the middle
\* one is not the end of the last one.
C2_Witness ==
    /\ IsGrouping
    /\ \E i \in 1..Len(out) :
        /\ RunLast(i) >= RunFirst(i) + 2
        /\ xs[RunFirst(i) + 1].end # xs[RunLast(i)].end

\* C3 as stated: for every input of events with end >= start, whatever their
\* order, every event emitted by join_continuations and by the grouping
\* operators has end >= start.
C3_EndAfterStart ==
    (IsJoin \/ IsGrouping) /\ ValidEvents(xs) => ValidEvents(out)

\* C3 amended: the same for every input of events with end >= start whose
\* start times are non-decreasing.
C3_EndAfterStartOrdered ==
    (IsJoin \/ IsGrouping) /\ ValidEvents(xs) /\ StartsOrdered(xs) => ValidEvents(out)

\* C3 witness: a grouping operator has merged two events of an input with
\* non-decreasing starts, the second of which overlaps the first.
C3_Witness ==
    /\ IsGrouping /\ ValidEvents(xs) /\ StartsOrdered(xs)
    /\ \E i \in 1..Len(out) :
        /\ RunLast(i) > RunFirst(i)
        /\ xs[RunFirst(i) + 1].start < xs[RunFirst(i)].end

\* C4: every event emitted by join_continuations that covers xs[a..b] has
\* start = xs[a].start, end = min(xs[a].end, start + 500) and the texts of
\* xs[a..b] concatenated in order.
C4_NormalizerEnvelope ==
    IsJoin =>
        /\ RunsContiguous
        /\ \A i \in 1..Len(out) :
            /\ out[i].start = xs[RunFirst(i)].start
            /\ out[i].end = Min(xs[RunFirst(i)].end, xs[RunFirst(i)].start + 500)
            /\ out[i].text = TextOf(xs, RunFirst(i), RunLast(i))

\* C4 witness: an emitted utterance absorbed a fragment that ends later than
\* the utterance's first event, and another emitted utterance was clamped.
C4_Witness ==
    /\ IsJoin
    /\ \E i \in 1..Len(out) :
        /\ RunLast(i) > RunFirst(i)
        /\ xs[RunLast(i)].end > xs[RunFirst(i)].end
    /\ \E i \in 1..Len(out) : xs[RunFirst(i)].end > xs[RunFirst(i)].start + 500

\* C5 as stated: join_continuations on scenario S1 yields
\* [(0, 500, " Helloworld"), (900, 1000, " again.")].
C5_ScenarioS1 ==
    IsJoin /\ xs = S1 /\ pc = "done" =>
        out = <<Timing(0, 500, S1[1].text \o S1[2].text), S1[3]>>

\* C5 amended: join_continuations on scenario S1 yields
\* [(0, 200, " Helloworld"), (900, 1000, " again.")]: the fused event keeps
\* the end of its first fragment, 200.
C5_ScenarioS1Absorbed ==
    IsJoin /\ xs = S1 /\ pc = "done" =>
        out = <<Timing(0, 200, S1[1].text \o S1[2].text), S1[3]>>

\* C5 witness: join_continuations has run to its end on S1.
C5_Witness == IsJoin /\ xs = S1 /\ pc = "done" /\ Len(out) = 2

\* the step merged the next event into the accumulator
Merged == pos' = pos + 1 /\ pc' = "run" /\ out' = out

\* the step emitted the accumulator and consumed nothing
EmittedAcc == out' = Append(out, acc) /\ pc' = "batch" /\ pos' = pos

\* the step closed the run with one emitted event and consumed nothing
EmittedRun == Len(out') = Len(out) + 1 /\ pc' = "batch" /\ pos' = pos

\* C6 as stated: join_continuations absorbs the next unread event exactly
\* when its text is non-empty and its first character is not whitespace; an
\* event with empty text starts a new output event.
C6_AbsorbsNonEmpty ==
    [][(pc = "run" /\ IsJoin /\ HasNext) =>
        (Merged <=> (Len(next.text) > 0 /\ next.text[1] \notin Whitespace))]_vars

\* C6 amended: join_continuations absorbs the next unread event exactly when
\* its text does not begin with a whitespace character; an event with empty
\* text is a continuation and is absorbed.
C6_AbsorbsNoLeadingSpace ==
    [][(pc = "run" /\ IsJoin /\ HasNext) =>
        /\ Merged <=> (Len(next.text) = 0 \/ next.text[1] \notin Whitespace)
        /\ Merged \/ EmittedRun]_vars

\* C6 witness: an emitted utterance has absorbed an event with empty text.
C6_Witness ==
    /\ IsJoin
    /\ \E i \in 1..Len(out) : \E j \in (RunFirst(i) + 1)..RunLast(i) : xs[j].text = <<>>

\* C7 as stated: after join_continuations, every emitted event starts at or
\* after the end of the event emitted before it, for every input of events
\* with end >= start.
C7_NormalizerOrders ==
    IsJoin /\ ValidEvents(xs) => NonOverlapping(out)

\* C7 amended: the same for every input of events with end >= start in which
\* every event starts at or after the end of the one before it:
\* join_continuations keeps that order, it does not establish it.
C7_NormalizerKeepsOrder ==
    IsJoin /\ ValidEvents(xs) /\ NonOverlapping(xs) => NonOverlapping(out)

\* C7 witness: on such an input, a clamped utterance that absorbed a fragment
\* is followed by another emitted utterance.
C7_Witness ==
    /\ IsJoin /\ NonOverlapping(xs)
    /\ \E i \in 1..(Len(out) - 1) :
        /\ RunLast(i) > RunFirst(i)
        /\ out[i].end < xs[RunFirst(i)].end

\* C8: in max_silence and by_gap, when next.start < acc.end the gap counts as
\* 0: the step does not abort, the next event is merged exactly when the
\* silence so far plus 0 is below D, and total_silence is left unchanged.
C8_SaturatingGap ==
    [][(pc = "run" /\ op.name \in {"max_silence", "by_gap"} /\ HasNext
            /\ next.start < acc.end) =>
        /\ pc' # "panicked"
        /\ Merged <=> (IF op.name = "max_silence" THEN total_silence ELSE 0) < op.arg
        /\ (Merged /\ op.name = "max_silence") => total_silence' = total_silence]_vars

RECURSIVE GapSum(_, _)
\* the sum of the gaps between the consecutive events of xs[a..b]
GapSum(a, b) ==
    IF b <= a THEN 0 ELSE GapSum(a, b - 1) + (xs[b].start - xs[b - 1].end)

C10_ScenarioS5 ==
    op = Op("max_silence", 300) /\ xs = S5 /\ pc = "done" =>
        Ranges(out) = <<(<<0, 300>>), (<<500, 1000>>)>>

\* C10 amended: max_silence(300 ms) on scenario S5 emits exactly three events,
\* with ranges (0, 300), (500, 600) and (900, 1000): the 300 ms gap before the
\* last event is not < 300 either.
C10_ScenarioS5ThreeRuns ==
    op = Op("max_silence", 300) /\ xs = S5 /\ pc = "done" =>
        Ranges(out) = <<(<<0, 300>>), (<<500, 600>>), (<<900, 1000>>)>>

\* C10 witness: max_silence(300 ms) has run to its end on S5.
C10_Witness == op = Op("max_silence", 300) /\ xs = S5 /\ pc = "done" /\ Len(out) > 0

---------------------------------------------------------------------------
(* C11 .. C20 *)

\* C11: on an input in which every event starts at or after the end of the one
\* before it, by_gap(D) merges the next event exactly when the gap
\* next.start - acc.end is < D, whatever the earlier gaps of the run, and
\* otherwise emits the accumulator; by_gap(200 ms) on scenario S4 emits the
\* ranges (0, 250) and (600, 900).
C11_ByGapRule ==
    /\ [](op = Op("by_gap", 200) /\ xs = S4 /\ pc = "done" =>
            Ranges(out) = <<(<<0, 250>>), (<<600, 900>>)>>)
    /\ [][(op.name = "by_gap" /\ NonOverlapping(xs)) =>
            /\ (pc = "run" /\ HasNext) =>
                IF next.start - acc.end < op.arg
                THEN /\ Merged
                     /\ acc' = [start |-> acc.start, end |-> next.end,
                                text |-> acc.text \o next.text]
                ELSE EmittedAcc
            /\ (pc = "run" /\ ~HasNext) => EmittedAcc]_vars

\* C11 witness: by_gap has emitted a run of three events whose gaps are each
\* smaller than D and together reach D.
C11_Witness ==
    /\ op.name = "by_gap" /\ NonOverlapping(xs)
    /\ \E i \in 1..Len(out) :
        /\ RunLast(i) >= RunFirst(i) + 2
        /\ GapSum(RunFirst(i), RunLast(i)) >= op.arg

\* C12: in sentences a run continues while the accumulated text acc.text does
\* not end in a terminator: the run ends at the first event after which
\* acc.text has at least two characters and its last character is one of
\* . ! ?, the test being made on acc.text and not on the last merged event.
C12_SentenceOnAccumulated ==
    [][(op.name = "sentences" /\ pc = "run") =>
        IF is_sentence(acc.text) \/ ~HasNext THEN EmittedAcc ELSE Merged]_vars

\* C13: in min_word_count(N), N >= 1, a run continues while the accumulated
\* text holds fewer than N whitespace-separated tokens, so N single-word
\* events are merged into one emitted event and the next event starts a new
\* run.
C13_WordsOnAccumulated ==
    [][(op.name = "min_word_count" /\ op.arg >= 1 /\ pc = "run") =>
        IF WordCount(acc.text) >= op.arg \/ ~HasNext THEN EmittedAcc ELSE Merged]_vars

\* number of input events covered by the i-th emitted event
RunSize(i) == RunLast(i) - RunFirst(i) + 1

\* C14: chunks(K), K >= 1, on an input of n events emits ceil(n / K) events;
\* every emitted event but the last covers exactly K consecutive input events
\* and the last covers the remaining 1..K; chunks(3) on the seven events of
\* scenario S3 emits three events covering 3, 3 and 1 input events.
C14_ChunkSizes ==
    /\ (op.name = "chunks" /\ op.arg >= 1 /\ pc = "done") =>
        /\ Len(out) = (Len(xs) + op.arg - 1) \div op.arg
        /\ RunsContiguous
        /\ \A i \in 1..Len(out) :
            RunSize(i) = IF i < Len(out) THEN op.arg
                         ELSE Len(xs) - op.arg * (Len(out) - 1)
        /\ Len(out) > 0 => RunSize(Len(out)) \in 1..op.arg
    /\ (op = Op("chunks", 3) /\ xs = S3 /\ pc = "done") =>
        [i \in 1..Len(out) |-> RunSize(i)] = <<3, 3, 1>>

\* C14 witness: chunks(3) has run to its end on the seven events of S3.
C14_Witness == op = Op("chunks", 3) /\ xs = S3 /\ pc = "done" /\ Len(out) = 3

\* the operator and the input are one of the three identities of C16
IdentityCase ==
    /\ ValidEvents(xs)
    /\ \/ op = Op("chunks", 1)
       \/ op = Op("lasting", 0)
       \/ /\ op = Op("min_word_count", 1)
          /\ \A i \in 1..Len(xs) : WordCount(xs[i].text) >= 1

\* C16: on an input whose events have end >= start, chunks(1) and lasting(0)
\* emit exactly the input, and so does min_word_count(1) when every event
\* holds at least one token.
C16_Identities == (IdentityCase /\ pc = "done") => out = xs

\* C16 witness: lasting(0) has run to its end on an input of several events,
\* one of them of duration 0.
C16_Witness ==
    /\ IdentityCase /\ op.name = "lasting" /\ pc = "done"
    /\ Len(xs) >= 2
    /\ \E i \in 1..Len(xs) : xs[i].end = xs[i].start

\* C15: sentences applied to the output of sentences emits that output again,
\* for every input; chunks(k) applied to the output of chunks(k) emits what
\* chunks(k * k) emits on the input, for every k >= 1 and every input whose
\* length is a multiple of k * k.
C15_Compositions ==
    /\ (Finished /\ Len(trace) = 1 /\ trace[1].op.name = "sentences"
            /\ op.name = "sentences") =>
        out = trace[1].out
    /\ (Finished /\ Len(trace) = 2 /\ trace[1].op.name = "chunks"
            /\ trace[1].op.arg >= 1
            /\ trace[2].op = trace[1].op
            /\ op = Op("chunks", trace[1].op.arg * trace[1].op.arg)
            /\ xs = input
            /\ Len(input) % op.arg = 0) =>
        out = trace[2].out

\* C15 witness: chunks(2) twice and chunks(4) have both run to their end on
\* an input of four events.
C15_Witness ==
    /\ Finished /\ Len(trace) = 2 /\ op = Op("chunks", 4) /\ xs = input
    /\ trace[1].op = Op("chunks", 2) /\ trace[2].op = Op("chunks", 2)
    /\ Len(input) = 4 /\ Len(trace[1].out) = 2 /\ Len(out) = 1

\* the place of an operator in the fixed order of the transform command
Rank(name) ==
    CASE name = "join_continuations" -> 0
      [] name = "max_silence" -> 1
      [] name = "by_gap" -> 2
      [] name = "sentences" -> 3
      [] name = "min_word_count" -> 4
      [] name = "lasting" -> 5
      [] name = "chunks" -> 6

\* the operators started so far, in the order they were started
Applied == [i \in 1..Len(trace) |-> trace[i].op] \o <<op>>

\* the flags of the command line
RequestedOps == {argv[i] : i \in 1..Len(argv)}

\* C17: whatever the order of the grouping flags on the command line, the
\* transform runs join_continuations first, then the requested operators in
\* the order max_silence, by_gap, sentences, min_word_count, lasting, chunks,
\* each on the output of the stage before it; an operator that is not
\* requested is not run, so without grouping flags the output is the output
\* of join_continuations on the decoded events.
C17_PipelineOrder ==
    /\ Applied[1] = Op("join_continuations", 0)
    /\ \A i \in 2..Len(Applied) :
        /\ Applied[i] \in RequestedOps
        /\ Rank(Applied[i - 1].name) < Rank(Applied[i].name)
    /\ xs = IF trace = <<>> THEN input ELSE trace[Len(trace)].out
    /\ Finished => RequestedOps = {Applied[i] : i \in 2..Len(Applied)}
    /\ (Finished /\ argv = <<>>) => trace = <<>> /\ xs = input

\* C17 witness: the transform has run to its end with two grouping flags
\* given in the reverse of the fixed order, on an input of several events.
C17_Witness ==
    /\ Finished /\ Len(argv) = 2 /\ Len(trace) = 2
    /\ Rank(argv[1].name) > Rank(argv[2].name)
    /\ Len(input) >= 2 /\ Len(out) >= 1

\* C18: when the source holds a malformed CSV row or JSON object, at any
\* position, the run ends with the failure carried as an error value to the
\* top-level handler (exit code 1, message on standard error), for both
\* input formats.
C18_MalformedIsError ==
    (outcome # "running" /\ \E i \in 1..Len(records) : records[i] = "malformed") =>
        outcome = "error"

\* C19: the filter handles one line per call: for a line with exactly two
\* commas it returns the line without its first and its last double quote,
\* every other character kept in order; for every other line it returns the
\* input line byte for byte.
C19_LineByLine ==
    /\ Len(written) <= lines_read
    /\ \A i \in 1..Len(written) :
        written[i] = IF comma_count(reader[i]) = 2
                     THEN remove_bookending_quotes(reader[i])
                     ELSE reader[i]

\* C20: format_clock_value with no minimum scale renders a value below one
\* hour as m:ss.cs and a value of one hour or more as h:mm:ss.cs, cs being
\* (ms mod 1000) div 10 on two digits: 10 ms gives "0:00.01", 60,000 ms gives
\* "1:00.00" and 3,600,000 ms gives "1:00:00.00".
C20_ClockNone ==
    (min_clock_scale = "None" /\ rendered # <<>>) =>
        /\ rendered =
            IF total_ms < 60 * 60 * 1000
            THEN Decimal(total_ms \div 60000) \o <<":">>
                    \o Decimal02((total_ms \div 1000) % 60) \o <<".">>
                    \o Decimal02((total_ms % 1000) \div 10)
            ELSE Decimal(total_ms \div 3600000) \o <<":">>
                    \o Decimal02((total_ms \div 60000) % 60) \o <<":">>
                    \o Decimal02((total_ms \div 1000) % 60) \o <<".">>
                    \o Decimal02((total_ms % 1000) \div 10)
        /\ total_ms = 10 => rendered = <<"0", ":", "0", "0", ".", "0", "1">>
        /\ total_ms = 60000 => rendered = <<"1", ":", "0", "0", ".", "0", "0">>
        /\ total_ms = 3600000 =>
                rendered = <<"1", ":", "0", "0", ":", "0", "0", ".", "0", "0">>

---------------------------------------------------------------------------
(* C21 .. C23 *)

\* C21: every event join_continuations emits after the first one has a
\* non-empty text that begins with a whitespace character, for every input;
\* the first input event seeds the accumulator whether or not it is a
\* continuation, so only the first emitted event can begin otherwise.
C21_LaterEventsStartWithSpace ==
    /\ IsJoin =>
        \A i \in 2..Len(out) : Len(out[i].text) > 0 /\ is_whitespace(out[i].text[1])
    /\ (IsJoin /\ pc = "run" /\ first = 1) =>
        SubSeq(acc.text, 1, Len(xs[1].text)) = xs[1].text

\* C21 witness: the normalizer has emitted a first event that begins without
\* whitespace and a later event that absorbed an empty text.
C21_Witness ==
    /\ IsJoin /\ Len(out) >= 2
    /\ is_continuation(out[1])
    /\ \E i \in 2..Len(out) :
        \E j \in (RunFirst(i) + 1)..RunLast(i) : xs[j].text = <<>>

\* C22: chunks(0) emits no event and pulls no event from its upstream, for
\* every input: its first call returns None, so the events of a non-empty
\* input are all lost and every input event is covered only when K >= 1.
C22_ChunksZeroDropsAll ==
    op = Op("chunks", 0) =>
        /\ out = <<>> /\ pos = 0
        /\ pc \in {"batch", "done"}
        /\ (pc = "done" /\ xs # <<>>) => Covered < Len(xs)

\* C22 witness: chunks(0) has returned None on an input of several events.
C22_Witness == op = Op("chunks", 0) /\ pc = "done" /\ Len(xs) >= 2

\* C23: every call of BadCsvReader::read puts at most buf.len() bytes in the
\* caller's buffer and returns a count <= buf.len(), for every line length
\* and every buffer size; a line longer than the buffer is never a failure.
C23_ReadWithinBuffer ==
    /\ csv_pc # "panicked"
    /\ \A i \in 1..Len(written) : \E cap \in BufSizes : Len(written[i]) <= cap

====
